---- MODULE Spec2Model ----
(***************************************************************************)
(* A model of the Embed tool (src/src/index.js): the class-wide service    *)
(* registry built by Embed.prepare, the URL matcher matchService, the data *)
(* setter / render state machine of one Embed instance and the mutation    *)
(* quiescence detector embedIsReady.                                       *)
(*                                                                         *)
(* A JavaScript string is a sequence of tokens (a token is one character   *)
(* or an atomic group of characters); every other JavaScript value is a    *)
(* record [kind, s] so that all values have one shape.                     *)
(***************************************************************************)
EXTENDS Integers, Sequences, FiniteSets, TLC

VARIABLES
    services,   \* Embed.services: sequence of [key, def] in property order
    patterns,   \* Embed.patterns: sequence of [key, regex] in property order
    prepared,   \* Embed.prepare has completed at least once
    config,     \* the services object of the config handed to Embed.prepare
    last,       \* the last call made: its name, whether it threw, its inputs
    constructed,  \* an Embed instance exists
    _data,      \* this._data: service, source, embed, width, height
    element,    \* this.element: the current view (0 is null)
    views,      \* the view elements render has produced, by number
    inputHolder,  \* this.nodes.inputHolder: the view that holds it (0 is null)
    shown       \* the messages the last call passed to api.notifier.show

classVars == <<services, patterns, prepared, config>>
instanceVars == <<constructed, _data, element, views, inputHolder>>
vars == <<services, patterns, prepared, config, last,
          constructed, _data, element, views, inputHolder, shown>>

(***************************************************************************)
(* JavaScript values                                                       *)
(***************************************************************************)
Undefined == [kind |-> "undefined", s |-> <<>>]
Null == [kind |-> "null", s |-> <<>>]
True == [kind |-> "boolean", s |-> <<"true">>]
False == [kind |-> "boolean", s |-> <<"false">>]
ObjectValue == [kind |-> "object", s |-> <<>>]
Str(tokens) == [kind |-> "string", s |-> tokens]
Num(digits) == [kind |-> "number", s |-> <<digits>>]
RegExp(source) == [kind |-> "regexp", s |-> <<source>>]
Fn(name) == [kind |-> "function", s |-> <<name>>]

\* ToBoolean, as used by &&, || and !
Truthy(v) ==
    CASE v.kind \in {"undefined", "null"} -> FALSE
      [] v.kind = "boolean" -> v = True
      [] v.kind = "string" -> v.s # <<>>
      [] v.kind = "number" -> v.s # <<"0">>
      [] OTHER -> TRUE

\* the typeof operator
TypeOf(v) ==
    CASE v.kind \in {"null", "regexp", "object"} -> "object"
      [] OTHER -> v.kind

\* a || b
Or(a, b) == IF Truthy(a) THEN a ELSE b

(***************************************************************************)
(* Service definitions.  own is the set of the object's own properties: an *)
(* absent property reads as undefined, but Object.assign copies only own   *)
(* properties.                                                             *)
(***************************************************************************)
ServiceFields == {"regex", "embedUrl", "html", "height", "width", "id"}

MkService(regex, embedUrl, html, height, width, id, own) ==
    [regex |-> regex, embedUrl |-> embedUrl, html |-> html,
     height |-> height, width |-> width, id |-> id, own |-> own]

\* an object literal that lists exactly its defined properties
Literal(regex, embedUrl, html, height, width, id) ==
    LET d == MkService(regex, embedUrl, html, height, width, id, {})
    IN  [d EXCEPT !.own = {f \in ServiceFields : d[f] # Undefined}]

EmptyObject == Literal(Undefined, Undefined, Undefined, Undefined, Undefined, Undefined)

PLACEHOLDER == "<%= remote_id %>"
IFRAME == Str(<<"<iframe>", "</iframe>">>)

\* The builtin catalog imported from ./services (not among the sources):
\* three services in catalog order, one with size hints and an id function,
\* one with size hints only, one with neither.
SERVICES ==
    << [key |-> "youtube",
        def |-> Literal(RegExp("y(.*)"), Str(<<"Y/", PLACEHOLDER>>), IFRAME,
                        Num("320"), Num("580"), Fn("join"))],
       [key |-> "vimeo",
        def |-> Literal(RegExp("v(.*)"), Str(<<"V/", PLACEHOLDER, "?t">>), IFRAME,
                        Num("320"), Num("640"), Undefined)],
       [key |-> "coub",
        def |-> Literal(RegExp("c"), Str(<<"C/", PLACEHOLDER>>), IFRAME,
                        Undefined, Undefined, Undefined)] >>

Range(seq) == {seq[i] : i \in 1..Len(seq)}
KeysOf(entries) == {entries[i].key : i \in 1..Len(entries)}
BuiltinKeys == KeysOf(SERVICES)
HasKey(entries, key) == key \in KeysOf(entries)
Lookup(entries, key) == (CHOOSE i \in 1..Len(entries) : entries[i].key = key)
Get(entries, key) == entries[Lookup(entries, key)].def
MapSeq(seq, Op(_)) == [i \in 1..Len(seq) |-> Op(seq[i])]

(***************************************************************************)
(* CSS.supports(property, value) for the height and width properties: the  *)
(* value is converted to a string and parsed as a CSS <length-percentage>  *)
(* or keyword; a unitless number other than 0 is not one.                  *)
(***************************************************************************)
CssValues == {<<"300px">>, <<"100%">>, <<"auto">>, <<"0">>}
CssSupports(v) == v.kind \in {"string", "number"} /\ v.s \in CssValues

(***************************************************************************)
(* Embed.checkServiceConfig                                                *)
(***************************************************************************)
\* destructuring null or undefined raises a TypeError
DestructureThrows(v) == v.kind \in {"null", "undefined"}

checkServiceConfig(c) ==
    /\ Truthy(c.regex) /\ c.regex.kind = "regexp"
    /\ Truthy(c.embedUrl) /\ c.embedUrl.kind = "string"
    /\ Truthy(c.html) /\ c.html.kind = "string"
    /\ (c.id # Undefined => c.id.kind = "function")
    /\ (c.height # Undefined => CssSupports(c.height))
    /\ (c.width # Undefined => CssSupports(c.width))

(***************************************************************************)
(* Embed.prepare                                                           *)
(***************************************************************************)
\* a plausible slip: any truthy value enables a key
enabledServices_Truthy(svcs) ==
    MapSeq(SelectSeq(svcs, LAMBDA e : Truthy(e.value)), LAMBDA e : e.key)

\* keys whose value is the boolean true
enabledServices(svcs) ==
    MapSeq(SelectSeq(svcs, LAMBDA e : TypeOf(e.value) = "boolean" /\ e.value = True),
           LAMBDA e : e.key)

\* entries that pass the typeof value === 'object' filter
objectEntries(svcs) == SelectSeq(svcs, LAMBDA e : TypeOf(e.value) = "object")

\* checkServiceConfig is applied to every such entry, null included
prepareThrows(svcs) ==
    \E i \in 1..Len(objectEntries(svcs)) : DestructureThrows(objectEntries(svcs)[i].value)

\* the object built by the map callback owns all six properties
normalize(service) == [service EXCEPT !.own = ServiceFields]

userServices(svcs) ==
    MapSeq(SelectSeq(objectEntries(svcs), LAMBDA e : checkServiceConfig(e.object)),
           LAMBDA e : [key |-> e.key, def |-> normalize(e.object)])

builtinEntries(svcs) ==
    IF Len(enabledServices(svcs)) # 0
    THEN SelectSeq(SERVICES, LAMBDA e : e.key \in Range(enabledServices(svcs)))
    ELSE SERVICES

\* Object.assign({}, a, b): own properties of b over those of a
ObjectAssign(a, b) ==
    [f \in ServiceFields \cup {"own"} |->
        IF f = "own" THEN a.own \cup b.own
        ELSE IF f \in b.own THEN b[f] ELSE a[f]]

\* the reducer of Embed.services: a new key is appended, an existing key keeps
\* its place and receives the merged definition
RECURSIVE reduceServices(_, _)
reduceServices(entries, result) ==
    IF entries = <<>> THEN result
    ELSE LET e == Head(entries)
         IN  IF ~HasKey(result, e.key)
             THEN reduceServices(Tail(entries), Append(result, e))
             ELSE reduceServices(Tail(entries),
                    [result EXCEPT ![Lookup(result, e.key)].def = ObjectAssign(@, e.def)])

\* a plausible slip: the regex of a key that is already there is kept
RECURSIVE reducePatterns_KeepFirst(_, _)
reducePatterns_KeepFirst(entries, result) ==
    IF entries = <<>> THEN result
    ELSE LET e == Head(entries)
             p == [key |-> e.key, regex |-> e.def.regex]
         IN  IF ~HasKey(result, e.key)
             THEN reducePatterns_KeepFirst(Tail(entries), Append(result, p))
             ELSE reducePatterns_KeepFirst(Tail(entries), result)

\* the reducer of Embed.patterns: result[key] = item.regex
RECURSIVE reducePatterns(_, _)
reducePatterns(entries, result) ==
    IF entries = <<>> THEN result
    ELSE LET e == Head(entries)
             p == [key |-> e.key, regex |-> e.def.regex]
         IN  IF ~HasKey(result, e.key)
             THEN reducePatterns(Tail(entries), Append(result, p))
             ELSE reducePatterns(Tail(entries),
                    [result EXCEPT ![Lookup(result, e.key)] = p])

resolvedEntries(svcs) == builtinEntries(svcs) \o userServices(svcs)

\* the argument of a data assignment: value is the assigned value itself when it
\* is not an object, and the five fields are the object's properties otherwise
DataObject(service, source, embed, width, height) ==
    [value |-> ObjectValue, service |-> service, source |-> source,
     embed |-> embed, width |-> width, height |-> height]
NonObject(v) == [DataObject(Undefined, Undefined, Undefined, Undefined, Undefined)
                    EXCEPT !.value = v]

\* the result of matchService: a paste event mock {detail: {key, data}} or nothing
NoMatch == [matched |-> FALSE, key |-> "", data |-> <<>>]
composePasteEventMock(service, url) == [matched |-> TRUE, key |-> service, data |-> url]

\* the record of the last call: which operation, whether it threw, its inputs
\* (text, and for iframe markup the bare url and the markup's shape; the data
\* argument), what matchService returned, and the view a mutation or a timeout
\* belongs to
NoInput ==
    [op |-> "init", threw |-> FALSE, text |-> <<>>, bare |-> <<>>, shape |-> "",
     data |-> NonObject(Undefined), result |-> NoMatch, view |-> 0]
Call(op, threw) == [NoInput EXCEPT !.op = op, !.threw = threw]

(***************************************************************************)
(* The state of one Embed instance                                         *)
(***************************************************************************)
MaxViews == 2
PRELOADER_DELAY == 450
TickLen == 225

\* this._data = {}
EmptyRecord ==
    [service |-> Undefined, source |-> Undefined, embed |-> Undefined,
     width |-> Undefined, height |-> Undefined]

RecordFields == {"service", "source", "embed", "width", "height"}

\* A view element.  kind: input form or embed container; loading: the
\* container carries containerLoading; error: the input holder carries
\* inputError; observing: the MutationObserver is connected; timer: time since
\* the debounced callback was last called, -1 when no timeout is pending;
\* resolved: the promise of embedIsReady is resolved.  The view in the
\* document is this.element: replaceChild takes the old one out.
NoView ==
    [kind |-> "none", loading |-> FALSE, error |-> FALSE,
     observing |-> FALSE, timer |-> -1, resolved |-> FALSE]

ViewIds == 1..MaxViews
NumViews == Cardinality({v \in ViewIds : views[v].kind # "none"})

InitWidget ==
    /\ constructed = FALSE
    /\ _data = EmptyRecord
    /\ element = 0
    /\ views = [v \in ViewIds |-> NoView]
    /\ inputHolder = 0
    /\ shown = <<>>

Prepare(svcs) ==
    /\ config' = svcs
    /\ shown' = <<>>
    /\ UNCHANGED instanceVars
    /\ IF prepareThrows(svcs)
       THEN /\ last' = Call("prepare", TRUE)
            /\ UNCHANGED <<services, patterns, prepared>>
       ELSE /\ services' = reduceServices(resolvedEntries(svcs), <<>>)
            /\ patterns' = reducePatterns(resolvedEntries(svcs), <<>>)
            /\ prepared' = TRUE
            /\ last' = Call("prepare", FALSE)

(***************************************************************************)
(* User configurations                                                     *)
(***************************************************************************)
MaxEntries == 2

ConfigKeys == BuiltinKeys \cup {"custom"}

Flag(v) == [value |-> v, object |-> EmptyObject]
Object(o) == [value |-> ObjectValue, object |-> o]

ConfigValues ==
    { Flag(True), Flag(False), Flag(Str(<<"yes">>)), Flag(Num("1")), Flag(Null),
      \* valid: the three mandatory fields
      Object(Literal(RegExp("v(.*)"), Str(<<"U/", PLACEHOLDER>>), IFRAME,
                     Undefined, Undefined, Undefined)),
      \* valid: the three mandatory fields and height
      Object(Literal(RegExp("y(.*)"), Str(<<"U/", PLACEHOLDER>>), IFRAME,
                     Str(<<"300px">>), Undefined, Undefined)),
      \* valid: every field
      Object(Literal(RegExp("c"), Str(<<"U/", PLACEHOLDER>>), IFRAME,
                     Str(<<"300px">>), Str(<<"100%">>), Fn("first"))),
      \* invalid: an empty object
      Object(EmptyObject),
      \* invalid: embedUrl missing
      Object(Literal(RegExp("v(.*)"), Undefined, IFRAME,
                     Str(<<"300px">>), Undefined, Undefined)),
      \* invalid: regex is a string
      Object(Literal(Str(<<"v">>), Str(<<"U/", PLACEHOLDER>>), IFRAME,
                     Undefined, Undefined, Undefined)),
      \* invalid: id is not a function
      Object(Literal(RegExp("v(.*)"), Str(<<"U/", PLACEHOLDER>>), IFRAME,
                     Undefined, Undefined, Str(<<"first">>))),
      \* invalid: a unitless number is not a CSS height
      Object(Literal(RegExp("v(.*)"), Str(<<"U/", PLACEHOLDER>>), IFRAME,
                     Num("300"), Undefined, Undefined)) }

ConfigEntries ==
    {[key |-> k, value |-> c.value, object |-> c.object] : k \in ConfigKeys, c \in ConfigValues}

\* an object has each key once; its entries are enumerated in insertion order
DistinctKeys(svcs) == \A i, j \in 1..Len(svcs) : svcs[i].key = svcs[j].key => i = j

AllConfigs ==
    UNION {{svcs \in [1..n -> ConfigEntries] : DistinctKeys(svcs)} : n \in 0..MaxEntries}

(***************************************************************************)
(* Registry resolution on its own: one call of Embed.prepare per config    *)
(***************************************************************************)
InitPrepare ==
    /\ InitWidget
    /\ services = <<>>
    /\ patterns = <<>>
    /\ prepared = FALSE
    /\ config \in AllConfigs
    /\ last = NoInput

NextPrepare == last.op = "init" /\ Prepare(config)

SpecPrepare == InitPrepare /\ [][NextPrepare]_vars

(***************************************************************************)
(* Regular expressions.  A service pattern is known by its source; it is   *)
(* unanchored and has neither the g nor the y flag, so test and exec keep  *)
(* no state between calls.  A dot does not match a line terminator.        *)
(***************************************************************************)
NEWLINE == "\n"
WhiteSpace == {" ", NEWLINE}

\* the literal character a pattern looks for
RegexLiteral(re) ==
    CASE re.s = <<"y(.*)">> -> "y"
      [] re.s = <<"v(.*)">> -> "v"
      [] re.s = <<"c">> -> "c"

\* whether the pattern ends in the capture group (.*)
RegexHasGroup(re) == re.s \in {<<"y(.*)">>, <<"v(.*)">>}

Occurrences(re, str) == {i \in 1..Len(str) : str[i] = RegexLiteral(re)}

\* regex.test(str)
RegexTest(re, str) == Occurrences(re, str) # {}

Min(S) == CHOOSE x \in S : \A y \in S : x <= y

\* the longest run from position i that holds no line terminator
LineEnd(str, i) ==
    IF \E t \in i..Len(str) : str[t] = NEWLINE
    THEN Min({t \in i..Len(str) : str[t] = NEWLINE}) - 1
    ELSE Len(str)

\* regex.exec(str).slice(1) for a pattern that matches: the capture groups
RegexGroups(re, str) ==
    LET i == Min(Occurrences(re, str))
    IN  IF RegexHasGroup(re)
        THEN << Str(SubSeq(str, i + 1, LineEnd(str, i + 1))) >>
        ELSE << >>

(***************************************************************************)
(* matchService                                                            *)
(***************************************************************************)
QuoteClass == {"'", "|", "\""}

NoLineBreak(str, a, b) == \A t \in a..b : str[t] # NEWLINE

\* The ways /<iframe.*?\ssrc=(['|"])(.+?)\1.+iframe>/ matches str: p is the
\* position of <iframe, j of the white space before src=, k of the last token
\* of group 2; the closing delimiter repeats the opening one and at least one
\* character separates it from iframe>.
IframeMatches(str) ==
    LET n == Len(str)
        starts == {p \in 1..n : str[p] = "<iframe"}
        srcs(p) == {j \in (p + 1)..(n - 2) :
                      /\ NoLineBreak(str, p + 1, j - 1)
                      /\ str[j] \in WhiteSpace
                      /\ str[j + 1] = "src=" /\ str[j + 2] \in QuoteClass}
        ends(j) == {k \in (j + 3)..(n - 1) :
                      /\ NoLineBreak(str, j + 3, k)
                      /\ str[k + 1] = str[j + 2]
                      /\ \E m \in (k + 3)..n :
                            str[m] = "iframe>" /\ NoLineBreak(str, k + 2, m - 1)}
    IN  UNION {UNION {{<<p, j, k>> : k \in ends(j)} : j \in srcs(p)} : p \in starts}

\* backtracking order: leftmost start, then the lazy quantifiers as short as
\* they can be
Before(t, u) ==
    \/ t[1] < u[1]
    \/ t[1] = u[1] /\ t[2] < u[2]
    \/ t[1] = u[1] /\ t[2] = u[2] /\ t[3] <= u[3]

\* ary && ary[2]: group 2 of the match, or nothing
iframeSrc(str) ==
    LET M == IframeMatches(str)
        t == CHOOSE t \in M : \A u \in M : Before(t, u)
    IN  IF M = {} THEN <<>> ELSE SubSeq(str, t[2] + 3, t[3])

\* const url = (ary && ary[2]) || str
candidateUrl(str) == IF iframeSrc(str) # <<>> THEN iframeSrc(str) ELSE str

matchingIndexes(svcs, url) ==
    {i \in 1..Len(svcs) : RegexTest(svcs[i].def.regex, url)}

\* a plausible slip: the loop without its break returns the last match
firstMatch_NoBreak(svcs, url) ==
    CHOOSE i \in matchingIndexes(svcs, url) : \A j \in matchingIndexes(svcs, url) : i >= j

\* the for-in loop stops at the first key whose regex tests positive
firstMatch(svcs, url) == Min(matchingIndexes(svcs, url))

matchService(svcs, str) ==
    LET url == candidateUrl(str)
    IN  IF url = <<>> THEN NoMatch
        ELSE IF matchingIndexes(svcs, url) = {} THEN NoMatch
        ELSE composePasteEventMock(svcs[firstMatch(svcs, url)].key, url)

(***************************************************************************)
(* Texts handed to matchService                                            *)
(***************************************************************************)
Urls == { <<>>, <<"y", "1">>, <<"v", "y">>, <<"c", "|">>, <<"z", "1">>, <<"y">> }

Quotes == {"'", "\""}
MarkupShapes == {"plain", "attributes", "break-before-src", "multiline"}

\* iframe markup whose src attribute, quoted with q, is u
IframeMarkup(u, q, shape) ==
    LET src == <<"src=", q>> \o u \o <<q>>
        close == <<">", "</", "iframe>">>
        width == <<"width=", q, "5", q>>
        title == <<"title=", q, "t", q>>
    IN  CASE shape = "plain" -> <<"<iframe", " ">> \o src \o close
          [] shape = "attributes" ->
                <<"<iframe", " ">> \o width \o <<" ">> \o src \o <<" ">> \o title \o close
          [] shape = "break-before-src" ->
                <<"<iframe", " ">> \o width \o <<NEWLINE>> \o src \o close
          [] shape = "multiline" ->
                <<"<iframe", " ">> \o width \o <<NEWLINE, " ">> \o src \o close

MatchBare(u) ==
    /\ last' = [Call("matchService", FALSE) EXCEPT
                  !.text = u, !.bare = u, !.shape = "bare",
                  !.result = matchService(services, u)]
    /\ shown' = <<>>
    /\ UNCHANGED <<classVars, instanceVars>>

MatchIframe(u, q, shape) ==
    /\ u # <<>> /\ q \notin Range(u)
    /\ last' = [Call("matchService", FALSE) EXCEPT
                  !.text = IframeMarkup(u, q, shape), !.bare = u, !.shape = shape,
                  !.result = matchService(services, IframeMarkup(u, q, shape))]
    /\ shown' = <<>>
    /\ UNCHANGED <<classVars, instanceVars>>

\* configs of flags and valid custom definitions
MatchConfigs ==
    {svcs \in AllConfigs :
        \A i \in 1..Len(svcs) :
            \/ svcs[i].value = True
            \/ svcs[i].value = ObjectValue /\ checkServiceConfig(svcs[i].object)}

(***************************************************************************)
(* The matcher on its own: a registry is resolved, then texts are matched  *)
(***************************************************************************)
InitMatch ==
    /\ InitWidget
    /\ services = <<>>
    /\ patterns = <<>>
    /\ prepared = FALSE
    /\ config \in MatchConfigs
    /\ last = NoInput

\* matchService keeps no state, so one text per behaviour covers every call
NextMatch ==
    \/ last.op = "init" /\ Prepare(config)
    \/ last.op = "prepare" /\ \E u \in Urls : MatchBare(u)
    \/ last.op = "prepare" /\ \E u \in Urls, q \in Quotes, shape \in MarkupShapes :
                                MatchIframe(u, q, shape)

SpecMatch == InitMatch /\ [][NextMatch]_vars

(***************************************************************************)
(* The data setter and render                                              *)
(***************************************************************************)
\* a plausible slip: the fields are assigned without the fallback
mergeData_Overwrite(old, d) ==
    [service |-> d.service, source |-> d.source, embed |-> d.embed,
     width |-> d.width, height |-> d.height]

\* a plausible slip: width and height read from each other's argument
mergeData_SwapSize(old, d) ==
    [service |-> Or(d.service, old.service),
     source |-> Or(d.source, old.source),
     embed |-> Or(d.embed, old.embed),
     width |-> Or(d.height, old.width),
     height |-> Or(d.width, old.height)]

\* field: value || this.data.field
mergeData(old, d) ==
    [service |-> Or(d.service, old.service),
     source |-> Or(d.source, old.source),
     embed |-> Or(d.embed, old.embed),
     width |-> Or(d.width, old.width),
     height |-> Or(d.height, old.height)]

\* the property key a value names in Embed.services[value]
PropertyKey(v) == IF v.s = <<>> THEN "" ELSE v.s[1]

\* const {html} = Embed.services[this.data.service] on a missing definition
renderThrows(data) ==
    Truthy(data.service) /\ ~HasKey(services, PropertyKey(data.service))

\* the input form: a container that holds the input holder
inputView == [NoView EXCEPT !.kind = "input"]

\* a plausible slip: the iframe is appended before the observer is connected,
\* so that no mutation is observed and no timeout is set
embedView_ObserveAfterAppend(data) ==
    [NoView EXCEPT !.kind = "embed", !.loading = TRUE, !.observing = TRUE]

\* the embed container: the loading class is added, the observer is connected
\* by embedIsReady and then the iframe is appended, which is the first
\* observed mutation and calls the debounced resolve
embedView(data) ==
    [NoView EXCEPT !.kind = "embed", !.loading = TRUE, !.observing = TRUE, !.timer = 0]

\* render(): the element it builds, which becomes this.element
render(data) == IF ~Truthy(data.service) THEN inputView ELSE embedView(data)

\* this.element (and this.nodes.inputHolder for an input form) after render
Rendered(data) ==
    /\ NumViews < MaxViews
    /\ element' = NumViews + 1
    /\ inputHolder' = IF ~Truthy(data.service) THEN NumViews + 1 ELSE inputHolder

\* a plausible slip: only undefined is refused
isObject_OnlyUndefined(d) == d.value # Undefined

\* the instanceof Object guard: a primitive, null or undefined is refused
isObject(d) == d.value = ObjectValue

\* set data(data), called as `call`
DataSetter(d, call) ==
    IF ~isObject(d)
    THEN /\ last' = [call EXCEPT !.threw = TRUE]
         /\ UNCHANGED <<_data, element, views, inputHolder>>
    ELSE /\ _data' = mergeData(_data, d)
         /\ IF element = 0
            THEN /\ last' = call
                 /\ UNCHANGED <<element, views, inputHolder>>
            ELSE IF renderThrows(mergeData(_data, d))
            THEN /\ last' = [call EXCEPT !.threw = TRUE]
                 /\ UNCHANGED <<element, views, inputHolder>>
            ELSE /\ last' = call
                 /\ Rendered(mergeData(_data, d))
                 \* oldView.parentNode.replaceChild(this.render(), oldView)
                 /\ views' = [views EXCEPT ![NumViews + 1] = render(mergeData(_data, d))]

(***************************************************************************)
(* performServices                                                         *)
(***************************************************************************)
\* String(value) as tokens
StringOf(v) ==
    CASE v.kind \in {"string", "number", "boolean"} -> v.s
      [] OTHER -> <<v.kind>>

\* the id function of a service applied to the capture groups; the default is
\* (ids) => ids.shift()
ApplyId(id, groups) ==
    CASE id = Fn("join") ->
            IF groups = <<>> THEN Str(<<>>) ELSE groups[1]
      [] OTHER -> IF groups = <<>> THEN Undefined ELSE groups[1]

\* str.replace(/<\%\= remote\_id \%\>/g, value)
RECURSIVE ReplaceAll(_, _)
ReplaceAll(tokens, value) ==
    IF tokens = <<>> THEN <<>>
    ELSE (IF Head(tokens) = PLACEHOLDER THEN StringOf(value) ELSE <<Head(tokens)>>)
            \o ReplaceAll(Tail(tokens), value)

\* Embed.services[service] is missing, or regex.exec(url) is null
performThrows(key, url) ==
    \/ ~HasKey(services, key)
    \/ ~RegexTest(Get(services, key).regex, url)

embedOf(key, url) ==
    LET def == Get(services, key)
    IN  Str(ReplaceAll(def.embedUrl.s, ApplyId(def.id, RegexGroups(def.regex, url))))

performServices(key, url, call) ==
    IF performThrows(key, url)
    THEN /\ last' = [call EXCEPT !.threw = TRUE]
         /\ UNCHANGED <<_data, element, views, inputHolder>>
    ELSE DataSetter(DataObject(Str(<<key>>), Str(url), embedOf(key, url),
                               Get(services, key).width, Get(services, key).height),
                    call)

(***************************************************************************)
(* Inputs of the widget                                                    *)
(***************************************************************************)
DataArgs ==
    { DataObject(Undefined, Undefined, Undefined, Undefined, Undefined),
      DataObject(Undefined, Str(<<"v", "y">>), Undefined, Undefined, Undefined),
      DataObject(Str(<<"vimeo">>), Str(<<"v", "2">>), Str(<<"V/", "2", "?t">>),
                 Num("10"), Num("20")),
      DataObject(Str(<<>>), Str(<<>>), Null, Num("0"), Undefined),
      DataObject(Str(<<"coub">>), Undefined, Undefined, Undefined, Str(<<"300px">>)),
      NonObject(Undefined), NonObject(Null), NonObject(Str(<<"text">>)),
      NonObject(Num("7")), NonObject(True) }

\* a saved record handed back as data
AsData(r) == DataObject(r.service, r.source, r.embed, r.width, r.height)

PastedUrls == { <<"y", "1">>, <<"v", "y">>, <<"c", "|">> }

WidgetTexts ==
    { <<>>, <<"y", "1">>, <<"v", "y">>, <<"z", "1">>,
      IframeMarkup(<<"c", "|">>, "\"", "attributes") }

WidgetConfigs ==
    { <<>>,
      << [key |-> "custom", value |-> ObjectValue,
          object |-> Literal(RegExp("y(.*)"), Str(<<"U/", PLACEHOLDER>>), IFRAME,
                             Undefined, Undefined, Undefined)],
         [key |-> "vimeo", value |-> True, object |-> EmptyObject] >> }

(***************************************************************************)
(* The operations of the widget                                            *)
(***************************************************************************)
\* the host resolves the registry
Configure(svcs) == Prepare(svcs)

\* new Embed({data, config, api}): a fresh instance takes the place of the
\* modelled one; a constructor that throws leaves no instance behind.  from is
\* "saved" when d is the record save() has just returned.
Construct(d, from) ==
    /\ prepared
    /\ shown' = <<>>
    /\ UNCHANGED classVars
    /\ IF ~isObject(d)
       THEN /\ last' = [Call("construct", TRUE) EXCEPT !.data = d, !.shape = from]
            /\ UNCHANGED <<constructed, _data, element, views, inputHolder>>
       ELSE /\ last' = [Call("construct", FALSE) EXCEPT !.data = d, !.shape = from]
            /\ constructed' = TRUE
            /\ _data' = mergeData(EmptyRecord, d)
            /\ element' = 0
            /\ views' = [v \in ViewIds |-> NoView]
            /\ inputHolder' = 0

\* the host calls render() once and puts the element in the document
HostRender ==
    /\ constructed /\ element = 0
    /\ shown' = <<>>
    /\ UNCHANGED <<classVars, constructed, _data>>
    /\ IF renderThrows(_data)
       THEN /\ last' = Call("render", TRUE)
            /\ UNCHANGED <<element, views, inputHolder>>
       ELSE /\ last' = Call("render", FALSE)
            /\ Rendered(_data)
            /\ views' = [views EXCEPT ![NumViews + 1] = render(_data)]

\* instance.data = d
SetData(d) ==
    /\ constructed
    /\ shown' = <<>>
    /\ UNCHANGED <<classVars, constructed>>
    /\ DataSetter(d, [Call("setData", FALSE) EXCEPT !.data = d])

\* the host hands over a pasted url that matches Embed.patterns[key]
OnPaste(key, url) ==
    /\ constructed
    /\ \E i \in 1..Len(patterns) :
          patterns[i].key = key /\ RegexTest(patterns[i].regex, url)
    /\ shown' = <<>>
    /\ UNCHANGED <<classVars, constructed>>
    /\ performServices(key, url,
          [Call("onPaste", FALSE) EXCEPT !.text = url,
                                         !.result = composePasteEventMock(key, url)])

\* a plausible slip: the notification without the error style
checkFailed_NoStyle(call) ==
    /\ shown' = <<"error">>
    /\ last' = call
    /\ UNCHANGED <<_data, element, views, inputHolder>>

\* checkFailed: notifier.show, then applyErrorStyle on this.nodes.inputHolder
checkFailed(call) ==
    /\ shown' = <<"error">>
    /\ views' = [views EXCEPT ![inputHolder].error = TRUE]
    /\ last' = call
    /\ UNCHANGED <<_data, element, inputHolder>>

\* paste or Enter in the input of the current input form
StartChecking(str) ==
    /\ constructed
    /\ element # 0 /\ views[element].kind = "input"
    /\ UNCHANGED <<classVars, constructed>>
    /\ LET obj == matchService(services, str)
           call == [Call("startChecking", FALSE) EXCEPT !.text = str, !.result = obj]
       IN  IF obj.matched
           THEN shown' = <<>> /\ performServices(obj.key, obj.data, call)
           ELSE checkFailed(call)

\* save() returns this.data, the record kept in last.data; shape is
\* "restored" when the instance was constructed from a saved record by the
\* call just before
Save ==
    /\ constructed
    /\ shown' = <<>>
    /\ last' = [Call("save", FALSE) EXCEPT
                  !.data = AsData(_data),
                  !.shape = IF last.op = "construct" /\ last.shape = "saved" /\ ~last.threw
                            THEN "restored" ELSE ""]
    /\ UNCHANGED <<classVars, constructed, _data, element, views, inputHolder>>

(***************************************************************************)
(* embedIsReady: the observer, the debounced resolve and the promise       *)
(***************************************************************************)
\* a batch of child-list mutations in the subtree of view v: a connected
\* observer calls the debounced resolve, which restarts the quiet period
Mutate(v) ==
    /\ views[v].kind = "embed"
    /\ views' = [views EXCEPT ![v].timer = IF views[v].observing THEN 0 ELSE @]
    /\ last' = [Call("mutate", FALSE) EXCEPT !.view = v]
    /\ shown' = <<>>
    /\ UNCHANGED <<classVars, constructed, _data, element, inputHolder>>

\* an attribute of a descendant of view v changes: the observer is set up with
\* {childList: true, subtree: true} and is not told
AttributeMutate(v) ==
    /\ views[v].kind = "embed"
    /\ last' = [Call("attribute", FALSE) EXCEPT !.view = v]
    /\ shown' = <<>>
    /\ UNCHANGED <<classVars, constructed, _data, element, views, inputHolder>>

\* a plausible slip: resolve on the leading edge, as soon as a timeout is set
due_Leading(view) == view.timer >= 0

\* the debounced resolve runs once wait has passed since its last call
due(view) == view.timer >= PRELOADER_DELAY

pending(view) == view.timer >= 0 /\ ~due(view)

\* time passes for every pending timeout that is not yet due
Tick ==
    /\ \E v \in ViewIds : pending(views[v])
    /\ views' = [v \in ViewIds |->
                    IF pending(views[v])
                    THEN [views[v] EXCEPT !.timer = @ + TickLen]
                    ELSE views[v]]
    /\ last' = Call("tick", FALSE)
    /\ shown' = <<>>
    /\ UNCHANGED <<classVars, constructed, _data, element, inputHolder>>

\* the state of view v once the promise of embedIsReady resolves: the observer
\* is disconnected, then the loading class is removed from that container
resolve(view) ==
    [view EXCEPT !.timer = -1, !.resolved = TRUE, !.observing = FALSE, !.loading = FALSE]

\* a plausible slip: the loading class is removed from this.element, not from
\* the container the promise was created for
Quiesce_CurrentView(v) ==
    /\ due(views[v])
    /\ views' = [views EXCEPT ![v] = [resolve(@) EXCEPT !.loading = views[v].loading],
                              ![element].loading = FALSE]
    /\ last' = [Call("quiesce", FALSE) EXCEPT !.view = v]
    /\ shown' = <<>>
    /\ UNCHANGED <<classVars, constructed, _data, element, inputHolder>>

\* the timeout of the debounced resolve runs a full quiet period after the
\* last call
Quiesce(v) ==
    /\ due(views[v])
    /\ views' = [views EXCEPT ![v] = resolve(@)]
    /\ last' = [Call("quiesce", FALSE) EXCEPT !.view = v]
    /\ shown' = <<>>
    /\ UNCHANGED <<classVars, constructed, _data, element, inputHolder>>

(***************************************************************************)
(* The widget                                                              *)
(***************************************************************************)
Init ==
    /\ InitWidget
    /\ services = <<>>
    /\ patterns = <<>>
    /\ prepared = FALSE
    /\ config = <<>>
    /\ last = NoInput

Next ==
    \/ \E svcs \in WidgetConfigs : Configure(svcs)
    \/ \E d \in DataArgs : Construct(d, "new")
    \/ last.op = "save" /\ Construct(last.data, "saved")
    \/ HostRender
    \/ \E d \in DataArgs : SetData(d)
    \/ \E key \in ConfigKeys, url \in PastedUrls : OnPaste(key, url)
    \/ \E str \in WidgetTexts : StartChecking(str)
    \/ Save
    \/ \E v \in ViewIds : Mutate(v)
    \/ \E v \in ViewIds : AttributeMutate(v)
    \/ Tick
    \/ \E v \in ViewIds : Quiesce(v)

Spec == Init /\ [][Next]_vars

\* The same operations on fewer inputs, for the properties of progress: an
\* empty object, a partial update, a full record and null as data, one pasted
\* url, a text that matches and one that does not.
LiveDataArgs ==
    { DataObject(Undefined, Undefined, Undefined, Undefined, Undefined),
      DataObject(Undefined, Str(<<"v", "y">>), Undefined, Undefined, Undefined),
      DataObject(Str(<<"vimeo">>), Str(<<"v", "2">>), Str(<<"V/", "2", "?t">>),
                 Num("10"), Num("20")),
      NonObject(Null) }

LiveTexts == { <<"y", "1">>, <<"z", "1">> }

LiveUrls == { <<"v", "y">> }

NextLive ==
    \/ \E svcs \in WidgetConfigs : Configure(svcs)
    \/ \E d \in LiveDataArgs : Construct(d, "new")
    \/ last.op = "save" /\ Construct(last.data, "saved")
    \/ HostRender
    \/ \E d \in LiveDataArgs : SetData(d)
    \/ \E key \in ConfigKeys, url \in LiveUrls : OnPaste(key, url)
    \/ \E str \in LiveTexts : StartChecking(str)
    \/ Save
    \/ \E v \in ViewIds : Mutate(v)
    \/ \E v \in ViewIds : AttributeMutate(v)
    \/ Tick
    \/ \E v \in ViewIds : Quiesce(v)

\* the event loop runs every timeout that is due, and time passes
SpecLive ==
    /\ Init /\ [][NextLive]_vars
    /\ WF_vars(Tick)
    /\ \A v \in ViewIds : WF_vars(Quiesce(v))

(***************************************************************************)
(* Claims about Embed.prepare, checked under SpecPrepare                   *)
(***************************************************************************)
Resolved == last.op = "prepare" /\ ~last.threw
Flagged == {config[i].key : i \in {j \in 1..Len(config) : config[j].value = True}}
IsCustom(e) == e.value = ObjectValue
ValidCustomKeys == {config[i].key : i \in {j \in 1..Len(config) :
                        IsCustom(config[j]) /\ checkServiceConfig(config[j].object)}}
Survives(key) == key \in BuiltinKeys /\ (Flagged = {} \/ key \in Flagged)

\* C1: a valid custom definition under a surviving builtin key X that sets only
\* regex, embedUrl, html and height gives services[X] the custom height and
\* leaves the builtin's width and id as they were.
C1_OverridePreservesBuiltinFields ==
    Resolved =>
        \A i \in 1..Len(config) :
            LET e == config[i]
            IN  ( /\ IsCustom(e)
                  /\ Survives(e.key)
                  /\ checkServiceConfig(e.object)
                  /\ e.object.own = {"regex", "embedUrl", "html", "height"} )
                => /\ HasKey(services, e.key)
                   /\ Get(services, e.key).height = e.object.height
                   /\ Get(services, e.key).width = Get(SERVICES, e.key).width
                   /\ Get(services, e.key).id = Get(SERVICES, e.key).id

C3_InvalidCustomDropped ==
    last.op = "prepare" =>
        /\ ~last.threw
        /\ \A i \in 1..Len(config) :
              LET e == config[i]
              IN  (TypeOf(e.value) = "object"
                   /\ (e.value = Null \/ ~checkServiceConfig(e.object)))
                  => (HasKey(services, e.key)
                        => /\ e.key \in BuiltinKeys
                           /\ Get(services, e.key) = Get(SERVICES, e.key))

(***************************************************************************)
(* Claims about matchService, checked under SpecMatch                      *)
(***************************************************************************)
\* the order the resolver is said to produce: surviving builtins in catalog
\* order, then the valid custom keys that are new, in config order
ResolverOrder ==
    LET builtins == SelectSeq(MapSeq(SERVICES, LAMBDA e : e.key), Survives)
        customs == SelectSeq(MapSeq(config, LAMBDA e : e.key),
                             LAMBDA k : k \in ValidCustomKeys /\ ~Survives(k))
    IN  builtins \o customs

\* the regex in force for a key: the valid custom one, else the builtin one
RegexInForce(key) ==
    IF key \in ValidCustomKeys
    THEN config[CHOOSE i \in 1..Len(config) : config[i].key = key].object.regex
    ELSE Get(SERVICES, key).regex

Matched == last.op = "matchService"

\* C4: matchService returns the first key in resolver order whose regex matches
\* the candidate URL, never a later one, and returns a result whenever some
\* key matches.
C4_FirstMatchWins ==
    Matched =>
        LET url == candidateUrl(last.text)
            hits == {i \in 1..Len(ResolverOrder) : RegexTest(RegexInForce(ResolverOrder[i]), url)}
        IN  /\ last.result.matched <=> hits # {}
            /\ hits # {} => /\ last.result.key = ResolverOrder[Min(hits)]
                            /\ last.result.data = url

\* C4 witness: the URL matches two keys of the registry and the earlier one is
\* returned.
C4_Witness ==
    /\ Matched
    /\ Cardinality(matchingIndexes(services, candidateUrl(last.text))) >= 2
    /\ last.result.matched
    /\ last.result.key = ResolverOrder[1]

\* C10: matchService applied to iframe markup whose quoted src attribute is u
\* returns what matchService returns for the bare text u.
C10_IframeUnwraps ==
    (Matched /\ last.shape # "bare") => last.result = matchService(services, last.bare)

\* The unwrapping does hold for markup with no line terminator between <iframe
\* and the white space before src=, nor after the src attribute.
SingleLineIframeUnwraps ==
    (Matched /\ last.shape \in {"plain", "attributes", "break-before-src"})
        => last.result = matchService(services, last.bare)

(***************************************************************************)
(* Claims about one Embed instance, checked under Spec                     *)
(***************************************************************************)
SetObject == last'.op = "setData" /\ isObject(last'.data)

\* C5: after the assignment of an object each of service, source, embed,
\* width, height is the argument's value when that value is supplied and not
\* empty (truthy: undefined, null, '' and 0 do not overwrite), and the value
\* it had before otherwise.
C5_PartialUpdateMerge ==
    [][SetObject =>
          \A f \in RecordFields :
              _data'[f] = IF Truthy(last'.data[f]) THEN last'.data[f] ELSE _data[f]]_vars

\* C5 witness: a record with all five fields set was assigned {source: u} and
\* only its source changed.
C5_Witness ==
    /\ last.op = "setData" /\ ~last.threw
    /\ last.data = DataObject(Undefined, Str(<<"v", "y">>), Undefined, Undefined, Undefined)
    /\ _data = [service |-> Str(<<"vimeo">>), source |-> Str(<<"v", "y">>),
                embed |-> Str(<<"V/", "2", "?t">>), width |-> Num("10"), height |-> Num("20")]

\* C6: constructing an instance from a record save() returned and calling
\* save() at once returns the same service, source, embed, width and height.
C6_SaveRoundTrip ==
    [][(last'.op = "save" /\ last.op = "construct" /\ last.shape = "saved" /\ ~last.threw)
          => last'.data = last.data]_vars

\* C6 witness: save() right after a construction from a saved record that
\* names a service and has no width.
C6_Witness ==
    /\ last.op = "save" /\ last.shape = "restored"
    /\ Truthy(last.data.service) /\ Truthy(last.data.height)
    /\ last.data.width = Undefined

NoPatternMatches(str) ==
    str = <<>> \/ matchingIndexes(services, candidateUrl(str)) = {}

\* C7: a text handed to startChecking that is empty or matches no pattern
\* calls the notifier exactly once with an error, puts the error style on the
\* input holder, leaves the input form as the view and leaves the record as
\* it was.
C7_NoMatchGoesToError ==
    [][(last'.op = "startChecking" /\ NoPatternMatches(last'.text))
          => /\ shown' = <<"error">>
             /\ element' = element /\ inputHolder' = element
             /\ views[element].kind = "input"
             /\ views' = [views EXCEPT ![element].error = TRUE]
             /\ _data' = _data
             /\ ~last'.threw]_vars

\* C7 witness: a text that is not empty matched nothing while the record held
\* a source, and the input form carries the error style.
C7_Witness ==
    /\ last.op = "startChecking" /\ last.text # <<>> /\ ~last.result.matched
    /\ shown = <<"error">>
    /\ views[element].kind = "input" /\ views[element].error
    /\ Truthy(_data.source)

\* C8: assigning undefined, null, a string, a number or a boolean to data
\* throws and leaves the record, the current view and its loading state as
\* they were.
C8_NonObjectLeavesState ==
    [][(last'.op \in {"setData", "construct"} /\ last'.data.value # ObjectValue)
          => /\ last'.threw
             /\ UNCHANGED <<constructed, _data, element, views, inputHolder>>]_vars

\* C8 witness: null was assigned while the view was an embed container still
\* loading.
C8_Witness ==
    /\ last.op = "setData" /\ last.threw /\ last.data = NonObject(Null)
    /\ element # 0 /\ views[element].kind = "embed" /\ views[element].loading

SameInstance == last'.op # "construct"

\* C9: the promise of embedIsReady resolves only when a full quiet period has
\* passed since the latest observed batch, a due timeout can always run, and
\* once the promise is resolved the observer is disconnected, no timeout is
\* pending and nothing changes that view again.
C9_QuiescenceResolvesOnce ==
    [][\A v \in ViewIds :
          /\ (SameInstance /\ views'[v].resolved /\ ~views[v].resolved)
                => (views[v].timer >= PRELOADER_DELAY /\ views[v].observing)
          /\ views[v].timer >= PRELOADER_DELAY => ENABLED Quiesce(v)
          /\ views'[v].resolved => (~views'[v].observing /\ views'[v].timer = -1)
          /\ (SameInstance /\ views[v].resolved) => views'[v] = views[v]]_vars

\* C9 witness: a mutation batch arrives after the promise of a view has
\* resolved and starts no timeout.
C9_Witness ==
    /\ last.op = "mutate"
    /\ \E v \in ViewIds : views[v].resolved /\ ~views[v].observing /\ views[v].timer = -1
    /\ \A v \in ViewIds : views[v].kind = "embed" => views[v].resolved

(***************************************************************************)
(* Claims about the pattern map, checked under SpecPrepare                 *)
(***************************************************************************)
\* C11: after every call of Embed.prepare that completes, Embed.patterns and
\* Embed.services have the same keys, and Embed.patterns[k] is the regex of
\* Embed.services[k] for every key k.
C11_PatternsProjectRegistry ==
    Resolved =>
        /\ KeysOf(patterns) = KeysOf(services)
        /\ DistinctKeys(patterns) /\ DistinctKeys(services)
        /\ \A i \in 1..Len(patterns) :
              patterns[i].regex = Get(services, patterns[i].key).regex

\* C11 witness: a valid custom definition overrides a surviving builtin key
\* with another regex, and the pattern of that key is the custom regex.
C11_Witness ==
    /\ Resolved
    /\ \E i \in 1..Len(config) :
          /\ config[i].key \in ValidCustomKeys /\ Survives(config[i].key)
          /\ IsCustom(config[i])
          /\ config[i].object.regex # Get(SERVICES, config[i].key).regex
          /\ \E j \in 1..Len(patterns) :
                /\ patterns[j].key = config[i].key
                /\ patterns[j].regex = config[i].object.regex

(***************************************************************************)
(* Claims about replaced views and the observer, checked under Spec        *)
(***************************************************************************)
\* C12: a container loses the loading class only when the timeout of its own
\* promise runs, and the promise of a replaced container resolving leaves the
\* current view as it is.
C12_StaleFutureNoEffect ==
    [][/\ \A v \in ViewIds :
            (SameInstance /\ views[v].loading /\ ~views'[v].loading)
                => (last'.op = "quiesce" /\ last'.view = v /\ due(views[v]))
       /\ (last'.op = "quiesce" /\ last'.view # element)
            => views'[element] = views[element]]_vars

\* C12 witness: the promise of a replaced container has resolved while the
\* current view, rendered later, is still loading.
C12_Witness ==
    /\ last.op = "quiesce" /\ last.view # element
    /\ views[last.view].resolved /\ ~views[last.view].loading
    /\ views[element].kind = "embed" /\ views[element].loading

\* C13: no connected observer and no pending timeout exists for a container
\* other than the current view: replacing a view disconnects its observer.
C13_ObserverDisconnectedOnReplace ==
    \A v \in ViewIds :
        (views[v].observing \/ views[v].timer >= 0) => v = element

\* C14: an attribute change on a descendant of an observed container is a
\* mutation batch: it restarts the quiet period of that container.
C14_AttributeResetsTimer ==
    (last.op = "attribute" /\ views[last.view].observing)
        => views[last.view].timer = 0

(***************************************************************************)
(* Loading becomes Ready, checked under SpecLive                           *)
(***************************************************************************)
\* C15: the insertion of the iframe is observed, so that, if the mutations of
\* the subtree of a loading container stop, the loading class is eventually
\* removed from it by the resolution of its promise (or the instance is
\* discarded); and a container without the loading class never gets it again.
C15_LoadingBecomesReady ==
    /\ [][\A v \in ViewIds :
            (SameInstance /\ views[v].kind = "embed" /\ ~views[v].loading)
                => ~views'[v].loading]_vars
    /\ \A v \in ViewIds :
          (<>[][~(last'.op = "mutate" /\ last'.view = v)]_vars)
              => (views[v].loading ~> (views[v].resolved \/ views[v].kind = "none"))

\* C15 witness: the timeout of the current view ran and the container, an
\* embed that was loading, is ready.
C15_Witness ==
    /\ last.op = "quiesce" /\ last.view = element
    /\ views[element].kind = "embed"
    /\ views[element].resolved /\ ~views[element].loading

(***************************************************************************)
(* Claims about the record, checked under Spec                             *)
(***************************************************************************)
\* the last call was a paste or a submitted text that matched the service
\* last.result.key with the url last.result.data
Matching == last.op \in {"onPaste", "startChecking"} /\ last.result.matched

\* C16: after a match is applied the record's service is the matched key, its
\* source the candidate url, and its width and height are those the matched
\* service declares, undefined when it declares none.
C16_HintsFollowService ==
    (Matching /\ ~last.threw) =>
        /\ _data.service = Str(<<last.result.key>>)
        /\ _data.source = Str(last.result.data)
        /\ _data.width = Get(services, last.result.key).width
        /\ _data.height = Get(services, last.result.key).height

\* C17: when the record's service is set, the service is in the registry, the
\* record's source matches its regex and the record's embed is that service's
\* embedUrl with the id extracted from the source.
C17_EmbedDerivedFromService ==
    (constructed /\ Truthy(_data.service)) =>
        /\ HasKey(services, PropertyKey(_data.service))
        /\ _data.source.kind = "string"
        /\ RegexTest(Get(services, PropertyKey(_data.service)).regex, _data.source.s)
        /\ _data.embed = embedOf(PropertyKey(_data.service), _data.source.s)

\* the id extracted by the matched service from the matched url
ExtractedId ==
    ApplyId(Get(services, last.result.key).id,
            RegexGroups(Get(services, last.result.key).regex, last.result.data))

\* C18: when the id extracted from a matching url is the empty string or
\* undefined, performServices completes and the record's embed is the
\* service's embedUrl with an empty string in the place of every placeholder.
C18_EmptyIdSubstitutesEmpty ==
    (/\ Matching
     /\ HasKey(services, last.result.key)
     /\ RegexTest(Get(services, last.result.key).regex, last.result.data)
     /\ ExtractedId \in {Undefined, Str(<<>>)})
        => /\ ~last.threw
           /\ _data.embed =
                Str(ReplaceAll(Get(services, last.result.key).embedUrl.s, Str(<<>>)))

\* the last call assigned an object to data while a view existed
AssignedWithView ==
    /\ \/ last.op = "setData" /\ isObject(last.data)
       \/ Matching /\ HasKey(services, last.result.key)
    /\ element # 0

\* C19: a service that is set stays set for the life of the instance, and
\* after a data assignment made while a view exists the current view is the
\* input form exactly when the service is unset, and a loading embed container
\* otherwise.
C19_NoWayBackToEmpty ==
    /\ [][(SameInstance /\ Truthy(_data.service)) => Truthy(_data'.service)]_vars
    /\ [](AssignedWithView =>
            /\ (views[element].kind = "input") <=> ~Truthy(_data.service)
            /\ Truthy(_data.service) =>
                  (views[element].kind = "embed" /\ views[element].loading))

\* C20: the record's service is unset or a key of the current Embed.services.
C20_ServiceResolvable ==
    constructed =>
        (~Truthy(_data.service) \/ HasKey(services, PropertyKey(_data.service)))

====
